---- MODULE Spec2Model ----
(***************************************************************************)
(* File registry of the mini-gdrive application (app/routers/files.py):    *)
(* the metadata table `files` (app/models/file.py), the S3 bucket, and the *)
(* five request handlers list_files, upload_file, download_file,           *)
(* rename_file and delete_file.                                            *)
(*                                                                         *)
(* Python values are modelled as follows: str and bytes are TLA+ strings,  *)
(* Optional[T] is a sequence of length 0 (None) or 1, a dict is a sequence *)
(* of <<key, value>> pairs, an HTTP response is a record.                  *)
(***************************************************************************)
EXTENDS Integers, Sequences, FiniteSets, TLC

VARIABLES
    rows,      \* table `files`: id -> FileMeta row
    blobs,     \* the S3 bucket: key -> [Body, ContentType]
    clock,     \* time.time() / datetime.utcnow(), in whole seconds
    last,      \* the last completed request and its response
    uploaded,  \* history: id -> what Upload stored, until a Rename/Delete of id
    faults,    \* history: failed delete_object calls and out-of-band removals
    dl,        \* a download_file request in flight (interleaved execution)
    del        \* a delete_file request in flight (interleaved execution)

vars == <<rows, blobs, clock, last, uploaded, faults, dl, del>>

(***************************************************************************)
(* Bounds of the model.                                                    *)
(***************************************************************************)
MaxFiles == 2   \* at most this many rows at a time; ids are 1..MaxFiles
MaxClock == 1   \* the clock runs over 0..MaxClock seconds
MaxFaults == 1  \* at most this many failed delete_object calls and
                \* out-of-band removals in a run

SevenDays == 604800  \* timedelta(days=7), in seconds

FileIds == 1..MaxFiles
UserIds == {1, 2}

(***************************************************************************)
(* Python string functions.                                                *)
(***************************************************************************)
Char(s, i) == SubSeq(s, i, i)
Rest(s) == SubSeq(s, 2, Len(s))

Whitespace == {" ", "\t", "\n"}
UpperCase == "ABCDEFGHIJKLMNOPQRSTUVWXYZ"
LowerCase == "abcdefghijklmnopqrstuvwxyz"
Digits == "0123456789"

RECURSIVE lstrip(_)
lstrip(s) ==
    IF s # "" /\ Char(s, 1) \in Whitespace THEN lstrip(Rest(s)) ELSE s

RECURSIVE rstrip(_)
rstrip(s) ==
    IF s # "" /\ Char(s, Len(s)) \in Whitespace
    THEN rstrip(SubSeq(s, 1, Len(s) - 1))
    ELSE s

\* str.strip()
strip(s) == rstrip(lstrip(s))

lower_char(c) ==
    IF \E i \in 1..26 : Char(UpperCase, i) = c
    THEN Char(LowerCase, CHOOSE i \in 1..26 : Char(UpperCase, i) = c)
    ELSE c

\* str.lower()
RECURSIVE lower(_)
lower(s) == IF s = "" THEN "" ELSE lower_char(Char(s, 1)) \o lower(Rest(s))

IsDigit(c) == \E i \in 1..10 : Char(Digits, i) = c
DigitValue(c) == (CHOOSE i \in 1..10 : Char(Digits, i) = c) - 1

RECURSIVE AllDigits(_)
AllDigits(s) == s = "" \/ (IsDigit(Char(s, 1)) /\ AllDigits(Rest(s)))

RECURSIVE DecimalValue(_, _)
DecimalValue(s, acc) ==
    IF s = "" THEN acc
    ELSE DecimalValue(Rest(s), 10 * acc + DigitValue(Char(s, 1)))

\* int(s): <<n>>, or <<>> where Python raises ValueError
int(s) ==
    LET t == strip(s)
        signed == t # "" /\ Char(t, 1) \in {"+", "-"}
        body == IF signed THEN Rest(t) ELSE t
    IN  IF body = "" \/ ~AllDigits(body) THEN <<>>
        ELSE IF signed /\ Char(t, 1) = "-" THEN << 0 - DecimalValue(body, 0) >>
        ELSE << DecimalValue(body, 0) >>

\* urllib.parse.quote on the characters of 'Invalid filename'
RECURSIVE quote(_)
quote(s) ==
    IF s = "" THEN ""
    ELSE (IF Char(s, 1) = " " THEN "%20" ELSE Char(s, 1)) \o quote(Rest(s))

\* SQL LIKE: % matches any run of characters, _ any one character
RECURSIVE like(_, _)
like(p, s) ==
    IF p = "" THEN s = ""
    ELSE IF Char(p, 1) = "%"
         THEN like(Rest(p), s) \/ (s # "" /\ like(p, Rest(s)))
         ELSE /\ s # ""
              /\ (Char(p, 1) = "_" \/ Char(p, 1) = Char(s, 1))
              /\ like(Rest(p), Rest(s))

\* column.ilike(pattern)
ilike(s, p) == like(lower(p), lower(s))

(***************************************************************************)
(* Inputs of the requests.                                                 *)
(***************************************************************************)
\* the user_id cookie: absent, "0", or a user's id
Cookies == {<<>>, <<"0">>} \cup {<<ToString(u)>> : u \in UserIds}

\* the multipart upload: filename, content, content_type
Uploads ==
    { [filename |-> "a.txt", content |-> "hi", content_type |-> "text/plain"],
      [filename |-> "a.txt", content |-> "bye", content_type |-> ""] }

\* the form of /rename: new_name absent, blank, or a name
RenameForms == {<<>>, <<"   ">>, <<" report.pdf ">>}

\* the ?search= query parameter
Searches == {<<>>, <<"  ">>, <<" A.T ">>}

(***************************************************************************)
(* Responses.                                                              *)
(***************************************************************************)
NoContext == [files |-> <<>>, search_query |-> "", stats |-> <<>>]

Response(status, location, detail) ==
    [status |-> status, location |-> location, detail |-> detail,
     body |-> "", media_type |-> "", disposition |-> "", context |-> NoContext]

RedirectResponse(url) == Response(303, url, "")
HTTPException(status_code, detail) == Response(status_code, "", detail)
\* an exception no handler catches: the framework answers 500
InternalServerError == Response(500, "", "Internal Server Error")

StreamingResponse(body, media_type, disposition) ==
    [Response(200, "", "") EXCEPT !.body = body, !.media_type = media_type,
                                  !.disposition = disposition]

TemplateResponse(context) == [Response(200, "", "") EXCEPT !.context = context]

NoResponse == Response(0, "", "")

(***************************************************************************)
(* get_current_user_id and the database / bucket primitives.               *)
(***************************************************************************)
get_current_user_id(cookie) ==
    IF cookie = <<>> \/ cookie[1] = "" THEN <<>> ELSE int(cookie[1])

\* `if not user_id`
NotUser(user_id) == user_id = <<>> \/ user_id[1] = 0

\* primary key of `files`: the database assigns an id no present row has
\* (which one is the database's choice)
FreshIds == FileIds \ DOMAIN rows

\* query_file with the owner_id filter left out
query_file_any_owner(file_id, user_id) ==
    IF file_id \in DOMAIN rows THEN <<rows[file_id]>> ELSE <<>>

\* db.query(FileMeta).filter(id == file_id, owner_id == user_id).first()
query_file(file_id, user_id) ==
    IF file_id \in DOMAIN rows /\ rows[file_id].owner_id = user_id
    THEN <<rows[file_id]>>
    ELSE <<>>

\* all_files_query with the owner_id filter left out
all_files_query_everyone(user_id) == DOMAIN rows

\* db.query(FileMeta).filter(owner_id == user_id)
all_files_query(user_id) == {i \in DOMAIN rows : rows[i].owner_id = user_id}

Without(f, k) == [x \in DOMAIN f \ {k} |-> f[x]]

\* s3.put_object / s3.delete_object: the bucket afterwards
put_object(key, body, content_type) ==
    (key :> [Body |-> body, ContentType |-> content_type]) @@ blobs
delete_object(key) == Without(blobs, key)

\* f"{user_id}/{int(time.time())}_{upload.filename}"
storage_key(user_id, now, filename) ==
    ToString(user_id) \o "/" \o ToString(now) \o "_" \o filename

OrDefault(content_type) ==
    IF content_type = "" THEN "application/octet-stream" ELSE content_type

RECURSIVE SumSizes(_)
SumSizes(S) ==
    IF S = {} THEN 0
    ELSE LET i == CHOOSE x \in S : TRUE IN rows[i].size + SumSizes(S \ {i})

\* the stats dict of list_files
stats_of(user_id, search) ==
    IF search = <<>> \/ strip(search[1]) = ""
    THEN LET all == all_files_query(user_id)
             total_storage_result == SumSizes(all)
         IN  << <<"total_files", Cardinality(all)>>,
                <<"total_storage", total_storage_result>>,
                <<"recent_files",
                  Cardinality({i \in all :
                                 rows[i].uploaded_at >= clock - SevenDays})>> >>
    ELSE <<>>

\* the rows list_files selects
filtered_files(user_id, search) ==
    IF search # <<>> /\ strip(search[1]) # ""
    THEN {i \in all_files_query(user_id) :
            ilike(rows[i].original_name,
                  "%" \o lower(strip(search[1])) \o "%")}
    ELSE all_files_query(user_id)

\* order_by(uploaded_at.desc()): every order the database may return
Orderings(S) ==
    {seq \in [1..Cardinality(S) -> S] :
        /\ \A i, j \in DOMAIN seq : i # j => seq[i] # seq[j]
        /\ \A i, j \in DOMAIN seq :
              i < j => rows[seq[i]].uploaded_at >= rows[seq[j]].uploaded_at}

(***************************************************************************)
(* The handlers.  Each yields the response and the two stores afterwards;  *)
(* s3 records what the bucket call of the request did: "none" (no call),   *)
(* "ok", "nokey" (get_object raised for a key the bucket does not hold) or *)
(* "error" (the call raised for another reason).                           *)
(***************************************************************************)
Outcome(resp, newRows, newBlobs, s3) ==
    [resp |-> resp, rows |-> newRows, blobs |-> newBlobs, s3 |-> s3]

Unauthenticated == Outcome(RedirectResponse("/login"), rows, blobs, "none")

\* GET /files; `order` is the order the database returned the rows in
list_files(cookie, search, order) ==
    LET user_id == get_current_user_id(cookie) IN
    IF NotUser(user_id) THEN Unauthenticated
    ELSE Outcome(
           TemplateResponse(
             [files |-> [i \in DOMAIN order |-> rows[order[i]]],
              search_query |-> IF search = <<>> THEN "" ELSE search[1],
              stats |-> stats_of(user_id[1], search)]),
           rows, blobs, "none")

\* upload_file inserting the row before the put, so that a failed put
\* leaves the row behind
upload_file_row_first(cookie, upload, put_ok, new_id) ==
    LET user_id == get_current_user_id(cookie) IN
    IF NotUser(user_id) THEN Unauthenticated
    ELSE LET key == storage_key(user_id[1], clock, upload.filename)
             meta == [id |-> new_id,
                      owner_id |-> user_id[1],
                      stored_name |-> key,
                      original_name |-> upload.filename,
                      size |-> Len(upload.content),
                      path |-> key,
                      uploaded_at |-> clock]
         IN  IF ~put_ok
             THEN Outcome(InternalServerError, (new_id :> meta) @@ rows,
                          blobs, "error")
             ELSE Outcome(RedirectResponse("/files"),
                          (new_id :> meta) @@ rows,
                          put_object(key, upload.content,
                                     OrDefault(upload.content_type)),
                          "ok")

\* POST /upload; new_id is the primary key the database assigns
upload_file(cookie, upload, put_ok, new_id) ==
    LET user_id == get_current_user_id(cookie) IN
    IF NotUser(user_id) THEN Unauthenticated
    ELSE LET key == storage_key(user_id[1], clock, upload.filename)
             meta == [id |-> new_id,
                      owner_id |-> user_id[1],
                      stored_name |-> key,
                      original_name |-> upload.filename,
                      size |-> Len(upload.content),
                      path |-> key,
                      uploaded_at |-> clock]
         IN  IF ~put_ok
             THEN Outcome(InternalServerError, rows, blobs, "error")
             ELSE Outcome(RedirectResponse("/files"),
                          (new_id :> meta) @@ rows,
                          put_object(key, upload.content,
                                     OrDefault(upload.content_type)),
                          "ok")

\* s3.get_object: <<obj>>, or <<>> where it raises (no such key, or a fault);
\* obj["Body"].read() is taken to succeed once get_object has
get_object(key, get_ok) ==
    IF get_ok /\ key \in DOMAIN blobs THEN <<blobs[key]>> ELSE <<>>

\* download_fetch without the try/except around s3.get_object
download_fetch_uncaught(file, get_ok) ==
    LET obj == get_object(file.stored_name, get_ok) IN
    IF obj = <<>>
    THEN Outcome(InternalServerError, rows, blobs,
                 IF file.stored_name \in DOMAIN blobs THEN "error" ELSE "nokey")
    ELSE Outcome(StreamingResponse(
                   obj[1].Body,
                   OrDefault(obj[1].ContentType),
                   "attachment; filename=\"" \o file.original_name \o "\""),
                 rows, blobs, "ok")

\* download_file from the bucket fetch on, for the row `file` it found
download_fetch(file, get_ok) ==
    LET obj == get_object(file.stored_name, get_ok) IN
    IF obj = <<>>
    THEN Outcome(HTTPException(404, "File missing in cloud"), rows, blobs,
                 IF file.stored_name \in DOMAIN blobs THEN "error" ELSE "nokey")
    ELSE Outcome(StreamingResponse(
                   obj[1].Body,
                   OrDefault(obj[1].ContentType),
                   "attachment; filename=\"" \o file.original_name \o "\""),
                 rows, blobs, "ok")

\* a handler up to its ownership-scoped lookup: it has answered (done), or
\* goes on with the row `file` it found
Answered(o) == [done |-> TRUE, out |-> o, file |-> <<>>]
Found(file) == [done |-> FALSE, out |-> Unauthenticated, file |-> file]

\* download_file up to the lookup
download_lookup(cookie, file_id) ==
    LET user_id == get_current_user_id(cookie) IN
    IF NotUser(user_id) THEN Answered(Unauthenticated)
    ELSE LET file == query_file(file_id, user_id[1]) IN
         IF file = <<>>
         THEN Answered(Outcome(HTTPException(404, "File not found"),
                               rows, blobs, "none"))
         ELSE Found(file)

\* GET /download/{file_id}
download_file(cookie, file_id, get_ok) ==
    LET b == download_lookup(cookie, file_id) IN
    IF b.done THEN b.out ELSE download_fetch(b.file[1], get_ok)

\* rename_file moving the blob's key along with the display name
rename_file_rekey(cookie, file_id, form) ==
    LET user_id == get_current_user_id(cookie)
        new_name == strip(IF form = <<>> THEN "" ELSE form[1])
    IN
    IF NotUser(user_id) THEN Unauthenticated
    ELSE IF new_name = ""
    THEN Outcome(RedirectResponse("/files?error=" \o quote("Invalid filename")),
                 rows, blobs, "none")
    ELSE LET file == query_file(file_id, user_id[1]) IN
         IF file = <<>>
         THEN Outcome(HTTPException(404, "File not found"), rows, blobs, "none")
         ELSE Outcome(RedirectResponse("/files"),
                      [rows EXCEPT ![file[1].id].original_name = new_name,
                                   ![file[1].id].stored_name =
                                      storage_key(user_id[1], clock, new_name)],
                      blobs, "none")

\* POST /rename/{file_id}
rename_file(cookie, file_id, form) ==
    LET user_id == get_current_user_id(cookie)
        new_name == strip(IF form = <<>> THEN "" ELSE form[1])
    IN
    IF NotUser(user_id) THEN Unauthenticated
    ELSE IF new_name = ""
    THEN Outcome(RedirectResponse("/files?error=" \o quote("Invalid filename")),
                 rows, blobs, "none")
    ELSE LET file == query_file(file_id, user_id[1]) IN
         IF file = <<>>
         THEN Outcome(HTTPException(404, "File not found"), rows, blobs, "none")
         ELSE Outcome(RedirectResponse("/files"),
                      [rows EXCEPT ![file[1].id].original_name = new_name],
                      blobs, "none")

\* the try/except around s3.delete_object: the bucket afterwards
delete_blob(file, delete_ok) ==
    IF delete_ok THEN delete_object(file.stored_name) ELSE blobs

\* db.delete(file); db.commit()
delete_row(file) == Without(rows, file.id)

\* delete_file up to the lookup
delete_lookup(cookie, file_id) ==
    LET user_id == get_current_user_id(cookie) IN
    IF NotUser(user_id) THEN Answered(Unauthenticated)
    ELSE LET file == query_file(file_id, user_id[1]) IN
         IF file = <<>>
         THEN Answered(Outcome(HTTPException(404, "File not found"),
                               rows, blobs, "none"))
         ELSE Found(file)

\* delete_file letting the error of s3.delete_object propagate
delete_file_propagate(cookie, file_id, delete_ok) ==
    LET b == delete_lookup(cookie, file_id) IN
    IF b.done THEN b.out
    ELSE IF ~delete_ok
    THEN Outcome(InternalServerError, rows, blobs, "error")
    ELSE Outcome(RedirectResponse("/files"),
                 delete_row(b.file[1]),
                 delete_blob(b.file[1], delete_ok),
                 "ok")

\* POST /delete/{file_id}
delete_file(cookie, file_id, delete_ok) ==
    LET b == delete_lookup(cookie, file_id) IN
    IF b.done THEN b.out
    ELSE Outcome(RedirectResponse("/files"),
                 delete_row(b.file[1]),
                 delete_blob(b.file[1], delete_ok),
                 IF delete_ok THEN "ok" ELSE "error")

(***************************************************************************)
(* State machine: the server handles one request at a time; `last` holds   *)
(* the request just handled until its response has been sent.              *)
(***************************************************************************)
Idle == [pc |-> "idle", user_id |-> <<>>, file_id |-> 0, file |-> <<>>,
         s3 |-> "none", resp |-> NoResponse]

NoRequest == [op |-> "none", user_id |-> <<>>, file_id |-> 0, arg |-> <<>>,
              s3 |-> "none", resp |-> NoResponse]

Request(op, cookie, file_id, arg, o) ==
    [op |-> op, user_id |-> get_current_user_id(cookie), file_id |-> file_id,
     arg |-> arg, s3 |-> o.s3, resp |-> o.resp]

Init ==
    /\ rows = <<>>
    /\ blobs = <<>>
    /\ clock = 0
    /\ last = NoRequest
    /\ uploaded = <<>>
    /\ faults = 0
    /\ dl = Idle
    /\ del = Idle

\* the server is free to take a request
Free == last = NoRequest /\ dl.pc = "idle" /\ del.pc = "idle"

Tick ==
    /\ clock < MaxClock
    /\ clock' = clock + 1
    /\ UNCHANGED <<rows, blobs, last, uploaded, faults, dl, del>>

\* the response of the request just handled is sent
Return ==
    /\ last # NoRequest
    /\ last' = NoRequest
    /\ UNCHANGED <<rows, blobs, clock, uploaded, faults, dl, del>>

Upload(cookie, upload, put_ok, new_id) ==
    /\ Free
    /\ new_id \in FreshIds
    /\ LET o == upload_file(cookie, upload, put_ok, new_id) IN
       /\ rows' = o.rows
       /\ blobs' = o.blobs
       /\ last' = Request("upload", cookie, new_id, <<upload.filename>>, o)
       /\ uploaded' = IF new_id \in DOMAIN o.rows
                      THEN (new_id :> [name |-> upload.filename,
                                       content |-> upload.content]) @@ uploaded
                      ELSE uploaded
    /\ UNCHANGED <<clock, faults, dl, del>>

Download(cookie, file_id, get_ok) ==
    /\ Free
    /\ LET o == download_file(cookie, file_id, get_ok) IN
       /\ rows' = o.rows
       /\ blobs' = o.blobs
       /\ last' = Request("download", cookie, file_id, <<>>, o)
    /\ UNCHANGED <<clock, uploaded, faults, dl, del>>

Rename(cookie, file_id, form) ==
    /\ Free
    /\ LET o == rename_file(cookie, file_id, form) IN
       /\ rows' = o.rows
       /\ blobs' = o.blobs
       /\ last' = Request("rename", cookie, file_id, form, o)
       /\ uploaded' = IF o.rows # rows THEN Without(uploaded, file_id)
                      ELSE uploaded
    /\ UNCHANGED <<clock, faults, dl, del>>

Delete(cookie, file_id, delete_ok) ==
    /\ Free
    /\ delete_ok \/ faults < MaxFaults
    /\ LET o == delete_file(cookie, file_id, delete_ok) IN
       /\ rows' = o.rows
       /\ blobs' = o.blobs
       /\ last' = Request("delete", cookie, file_id, <<>>, o)
       /\ faults' = IF o.s3 = "error" THEN faults + 1 ELSE faults
       /\ uploaded' = IF file_id \in DOMAIN o.rows THEN uploaded
                      ELSE Without(uploaded, file_id)
    /\ UNCHANGED <<clock, dl, del>>

List(cookie, search) ==
    /\ Free
    /\ LET user_id == get_current_user_id(cookie)
           found == IF NotUser(user_id) THEN {}
                    ELSE filtered_files(user_id[1], search)
       IN  \E order \in Orderings(found) :
             LET o == list_files(cookie, search, order) IN
             /\ rows' = o.rows
             /\ blobs' = o.blobs
             /\ last' = Request("list", cookie, 0, search, o)
    /\ UNCHANGED <<clock, uploaded, faults, dl, del>>

\* a blob is removed from the bucket by something other than the application
RemoveBlob(key) ==
    /\ Free
    /\ key \in DOMAIN blobs
    /\ faults < MaxFaults
    /\ blobs' = delete_object(key)
    /\ faults' = faults + 1
    /\ UNCHANGED <<rows, clock, last, uploaded, dl, del>>

\* the requests, with the bucket calls failing or not as `S3` allows
Requests(S3) ==
    \/ \E c \in Cookies, u \in Uploads, ok \in S3, i \in FileIds :
         Upload(c, u, ok, i)
    \/ \E c \in Cookies, i \in FileIds, ok \in S3 : Download(c, i, ok)
    \/ \E c \in Cookies, i \in FileIds, f \in RenameForms : Rename(c, i, f)
    \/ \E c \in Cookies, i \in FileIds, ok \in S3 : Delete(c, i, ok)
    \/ \E c \in Cookies, s \in Searches : List(c, s)

Next ==
    \/ Tick
    \/ Return
    \/ Requests(BOOLEAN)
    \/ \E k \in DOMAIN blobs : RemoveBlob(k)

Spec == Init /\ [][Next]_vars

\* the same with a bucket that never fails and that nothing else touches
NextClean ==
    \/ Tick
    \/ Return
    \/ Requests({TRUE})

SpecClean == Init /\ [][NextClean]_vars

(***************************************************************************)
(* Interleaved execution: one download_file and one delete_file request    *)
(* run concurrently, each a sequence of its database and bucket calls.     *)
(* Uploads set the scene while neither is in flight.                       *)
(***************************************************************************)
InFlight(pc, cookie, file_id, file, s3, resp) ==
    [pc |-> pc, user_id |-> get_current_user_id(cookie), file_id |-> file_id,
     file |-> file, s3 |-> s3, resp |-> resp]

\* download_file: lines 155-165
DownloadLookup(cookie, file_id) ==
    /\ last = NoRequest
    /\ dl.pc = "idle"
    /\ LET b == download_lookup(cookie, file_id) IN
       dl' = IF b.done
             THEN InFlight("done", cookie, file_id, <<>>, b.out.s3, b.out.resp)
             ELSE InFlight("fetch", cookie, file_id, b.file, "none", NoResponse)
    /\ UNCHANGED <<rows, blobs, clock, last, uploaded, faults, del>>

\* download_file: lines 167-182
DownloadFetch(get_ok) ==
    /\ dl.pc = "fetch"
    /\ LET o == download_fetch(dl.file[1], get_ok) IN
       dl' = [dl EXCEPT !.pc = "done", !.s3 = o.s3, !.resp = o.resp]
    /\ UNCHANGED <<rows, blobs, clock, last, uploaded, faults, del>>

DownloadReturn ==
    /\ dl.pc = "done"
    /\ dl' = Idle
    /\ UNCHANGED <<rows, blobs, clock, last, uploaded, faults, del>>

\* delete_file: lines 229-239
DeleteLookup(cookie, file_id) ==
    /\ last = NoRequest
    /\ del.pc = "idle"
    /\ LET b == delete_lookup(cookie, file_id) IN
       del' = IF b.done
              THEN InFlight("done", cookie, file_id, <<>>, b.out.s3, b.out.resp)
              ELSE InFlight("s3", cookie, file_id, b.file, "none", NoResponse)
    /\ UNCHANGED <<rows, blobs, clock, last, uploaded, faults, dl>>

\* delete_file: lines 241-246
DeleteBlob(delete_ok) ==
    /\ del.pc = "s3"
    /\ delete_ok \/ faults < MaxFaults
    /\ blobs' = delete_blob(del.file[1], delete_ok)
    /\ faults' = IF delete_ok THEN faults ELSE faults + 1
    /\ del' = [del EXCEPT !.pc = "commit",
                          !.s3 = IF delete_ok THEN "ok" ELSE "error"]
    /\ UNCHANGED <<rows, clock, last, uploaded, dl>>

\* delete_file: lines 248-251
DeleteCommit ==
    /\ del.pc = "commit"
    /\ rows' = delete_row(del.file[1])
    /\ uploaded' = Without(uploaded, del.file_id)
    /\ del' = [del EXCEPT !.pc = "done", !.resp = RedirectResponse("/files")]
    /\ UNCHANGED <<blobs, clock, last, faults, dl>>

DeleteReturn ==
    /\ del.pc = "done"
    /\ del' = Idle
    /\ UNCHANGED <<rows, blobs, clock, last, uploaded, faults, dl>>

NextRace ==
    \/ Tick
    \/ Return
    \/ \E c \in Cookies, u \in Uploads, i \in FileIds : Upload(c, u, TRUE, i)
    \/ \E c \in Cookies, i \in FileIds : DownloadLookup(c, i)
    \/ \E ok \in BOOLEAN : DownloadFetch(ok)
    \/ DownloadReturn
    \/ \E c \in Cookies, i \in FileIds : DeleteLookup(c, i)
    \/ \E ok \in BOOLEAN : DeleteBlob(ok)
    \/ DeleteCommit
    \/ DeleteReturn

SpecRace == Init /\ [][NextRace]_vars

(***************************************************************************)
(* The error kinds, as the handlers answer them.                           *)
(***************************************************************************)
NotFound == HTTPException(404, "File not found")
BlobMissing == HTTPException(404, "File missing in cloud")
InvalidInput == RedirectResponse("/files?error=Invalid%20filename")
Done == RedirectResponse("/files")

Authenticated(user_id) == ~NotUser(user_id)
OwnsRow(user_id, file_id) ==
    file_id \in DOMAIN rows /\ rows[file_id].owner_id = user_id[1]
ForeignRow(user_id, file_id) ==
    file_id \in DOMAIN rows /\ rows[file_id].owner_id # user_id[1]
Blank(form) == form = <<>> \/ strip(form[1]) = ""

\* this step is the handler of `op` running
Handles(op) == last = NoRequest /\ last'.op = op

(***************************************************************************)
(* C1 as stated: Rename, Delete and Download by an authenticated caller of *)
(* a file id whose row has another owner fail NotFound, for Rename         *)
(* whatever the new name.                                                  *)
(***************************************************************************)
IsolationAnyName ==
    [][\A op \in {"rename", "delete", "download"} :
         (/\ Handles(op)
          /\ Authenticated(last'.user_id)
          /\ ForeignRow(last'.user_id, last'.file_id))
         => last'.resp = NotFound]_vars

(***************************************************************************)
(* C1 amended: Delete and Download, and Rename with a new name that is not *)
(* empty after trimming, by an authenticated caller of a file id whose row *)
(* has another owner, or that has no row, fail NotFound and change neither *)
(* store; Rename with a new name that is empty after trimming fails        *)
(* InvalidInput whoever owns the row.                                      *)
(***************************************************************************)
OwnershipIsolation ==
    [][\A op \in {"rename", "delete", "download"} :
         (/\ Handles(op)
          /\ Authenticated(last'.user_id)
          /\ ~OwnsRow(last'.user_id, last'.file_id))
         => /\ rows' = rows
            /\ blobs' = blobs
            /\ last'.resp = IF op = "rename" /\ Blank(last'.arg)
                            THEN InvalidInput ELSE NotFound]_vars

OwnershipIsolationWitness ==
    /\ last.op = "rename"
    /\ Authenticated(last.user_id)
    /\ ForeignRow(last.user_id, last.file_id)
    /\ ~Blank(last.arg)
    /\ last.resp = NotFound

(***************************************************************************)
(* C2: List by an authenticated caller returns only rows the caller owns,  *)
(* returns no row of another owner with or without a search term, and      *)
(* without a search term returns every row the caller owns.                *)
(***************************************************************************)
Listed(i) ==
    \E k \in DOMAIN last.resp.context.files :
        last.resp.context.files[k] = rows[i]

ListIsolation ==
    (last.op = "list" /\ Authenticated(last.user_id)) =>
        /\ last.resp.status = 200
        /\ \A k \in DOMAIN last.resp.context.files :
              last.resp.context.files[k].owner_id = last.user_id[1]
        /\ \A i \in DOMAIN rows :
              /\ rows[i].owner_id # last.user_id[1] => ~Listed(i)
              /\ (rows[i].owner_id = last.user_id[1] /\ last.arg = <<>>)
                    => Listed(i)

ListIsolationWitness ==
    /\ last.op = "list"
    /\ Authenticated(last.user_id)
    /\ last.arg = <<>>
    /\ Len(last.resp.context.files) = 1
    /\ \E i \in DOMAIN rows : rows[i].owner_id # last.user_id[1]

(***************************************************************************)
(* C3: no two rows have the same stored key.                               *)
(***************************************************************************)
KeysUnique ==
    \A i, j \in DOMAIN rows : i # j => rows[i].stored_name # rows[j].stored_name

(***************************************************************************)
(* C4: a row keeps its stored key and its owner from Upload to Delete; a   *)
(* step that changes a row is a Rename of that row, changes only its       *)
(* original_name, and leaves every other row and the bucket as they are.   *)
(***************************************************************************)
StoredKeyImmutable ==
    [][\A i \in DOMAIN rows \cap DOMAIN rows' :
         /\ rows'[i].stored_name = rows[i].stored_name
         /\ rows'[i].owner_id = rows[i].owner_id
         /\ rows'[i] # rows[i] =>
              /\ last'.op = "rename" /\ last'.file_id = i /\ last'.resp = Done
              /\ rows' = [rows EXCEPT ![i].original_name = strip(last'.arg[1])]
              /\ blobs' = blobs]_vars

StoredKeyImmutableWitness ==
    /\ last.op = "rename"
    /\ last.resp = Done
    /\ Cardinality(DOMAIN rows) = 2
    /\ rows[last.file_id].original_name = "report.pdf"
    /\ rows[last.file_id].stored_name \in DOMAIN blobs

(***************************************************************************)
(* C5: Download by the owner of a row whose blob is absent from the bucket *)
(* fails with an outcome other than NotFound that is reported as a         *)
(* server-side fault (a 5xx status).                                       *)
(***************************************************************************)
BlobMissingIsServerFault ==
    (/\ last.op = "download"
     /\ Authenticated(last.user_id)
     /\ OwnsRow(last.user_id, last.file_id)
     /\ rows[last.file_id].stored_name \notin DOMAIN blobs)
    => /\ last.resp # NotFound
       /\ last.resp.status >= 500

(***************************************************************************)
(* C6: a Delete that finds the row removes it and answers success whether  *)
(* delete_object succeeded or raised, and a Download of the same id by the *)
(* same caller right after it fails NotFound.                              *)
(***************************************************************************)
DeleteAuthoritative ==
    /\ [][(/\ Handles("delete")
           /\ Authenticated(last'.user_id)
           /\ OwnsRow(last'.user_id, last'.file_id))
          => /\ last'.file_id \notin DOMAIN rows'
             /\ last'.resp = Done
             /\ last'.s3 \in {"ok", "error"}]_vars
    /\ [](last.op = "delete" /\ last.resp = Done =>
            \A c \in Cookies, ok \in BOOLEAN :
                get_current_user_id(c) = last.user_id =>
                    download_file(c, last.file_id, ok).resp = NotFound)

DeleteAuthoritativeWitness ==
    /\ last.op = "delete"
    /\ last.s3 = "error"
    /\ last.resp = Done
    /\ last.file_id \notin DOMAIN rows

(***************************************************************************)
(* C7: a Download of a file by its owner, with no Rename or Delete of the  *)
(* file since the Upload that created it, returns the uploaded bytes and   *)
(* the uploaded name.                                                      *)
(***************************************************************************)
RoundTrip ==
    (/\ last.op = "download"
     /\ Authenticated(last.user_id)
     /\ OwnsRow(last.user_id, last.file_id)
     /\ last.file_id \in DOMAIN uploaded)
    => /\ last.resp.status = 200
       /\ last.resp.body = uploaded[last.file_id].content
       /\ last.resp.disposition =
            "attachment; filename=\"" \o uploaded[last.file_id].name \o "\""

(***************************************************************************)
(* C8: an Upload whose put_object fails answers an error and leaves the    *)
(* rows and the bucket as they were; a row is inserted only by an Upload   *)
(* whose put_object succeeded, and its blob is then in the bucket.         *)
(***************************************************************************)
UploadBlobFirst ==
    [][/\ (Handles("upload") /\ last'.s3 = "error")
          => /\ last'.resp.status >= 500
             /\ rows' = rows
             /\ blobs' = blobs
       /\ \A i \in DOMAIN rows' \ DOMAIN rows :
            /\ last'.op = "upload" /\ last'.file_id = i /\ last'.s3 = "ok"
            /\ rows'[i].stored_name \in DOMAIN blobs'
            /\ Len(blobs'[rows'[i].stored_name].Body) = rows'[i].size]_vars

UploadBlobFirstWitness ==
    /\ last.op = "upload"
    /\ last.s3 = "error"
    /\ last.resp = InternalServerError
    /\ last.file_id \notin DOMAIN rows

(***************************************************************************)
(* C9: a Download by the owner that runs concurrently with a Delete of the *)
(* same file ends in success, NotFound or BlobMissing, never in an         *)
(* unhandled fault; it ends in BlobMissing when it fetches the blob after  *)
(* the Delete has removed it.                                              *)
(***************************************************************************)
RaceIsHandled ==
    [][(dl.pc # "done" /\ dl'.pc = "done" /\ Authenticated(dl'.user_id))
       => /\ \/ dl'.resp = NotFound
             \/ dl'.resp = BlobMissing
             \/ /\ dl'.resp.status = 200
                /\ dl'.resp.body = blobs[dl.file[1].stored_name].Body
          /\ (dl.pc = "fetch" /\ dl.file[1].stored_name \notin DOMAIN blobs)
                => dl'.resp = BlobMissing]_vars

RaceIsHandledWitness ==
    /\ dl.pc = "done"
    /\ dl.resp = BlobMissing
    /\ dl.s3 = "nokey"
    /\ del.pc = "commit"
    /\ del.s3 = "ok"
    /\ del.file_id = dl.file_id
    /\ del.user_id = dl.user_id
    /\ OwnsRow(dl.user_id, dl.file_id)

(***************************************************************************)
(* C10: with a bucket that never fails and that nothing else touches,      *)
(* every row has its blob in the bucket.                                   *)
(***************************************************************************)
NoDanglingRows ==
    \A i \in DOMAIN rows : rows[i].stored_name \in DOMAIN blobs
====
